---- MODULE Spec2Model ----
(***************************************************************************)
(* The python profiler of omnitrace (source/python/libpyomnitrace.cpp):    *)
(* the per-thread configuration (get_config), the event dispatcher         *)
(* (profiler_function) with its re-entrancy flag, filters, label builder,  *)
(* depth counter and region ledger, and the control surface of generate()  *)
(* (profiler_init, profiler_finalize, the configuration properties).       *)
(*                                                                         *)
(* A std::string is a string; Ch(s, i) is its character at position i.     *)
(***************************************************************************)
EXTENDS Integers, Sequences, FiniteSets, TLC

VARIABLES
    mode,           \* the kind of run: "any" (arbitrary events), "nested" (calls and returns properly
                    \* nested), "threads" (arbitrary events on two threads), "three", "pair"
                    \* (one function on three, on two threads), "abort" (one function, argument
                    \* introspection, a malformed pattern) or "configured" (a configured session)
    live,           \* the threads of the run
    count,          \* get_config: static std::atomic<uint32_t> _count
    tl,             \* get_config: thread_local _tl_instance of each thread (NoInst before its initializer ran)
    conf,           \* the config objects: conf[0] is *_instance, conf[t] the object allocated for thread t
    disable,        \* profiler_function: static thread_local _disable
    depth_tracker,  \* profiler_function: static thread_local _depth_tracker
    labels,         \* profiler_function: static thread_local _labels
    path_init,      \* profiler_function: whether static _omnitrace_path has been initialized
    omnitrace_path, \* profiler_function: static _omnitrace_path
    pc,             \* per thread: "idle", or inside _get_args: "diag" (called for the
                    \* trace line of verbose > 3) or "args" (called by _get_label)
    pend,           \* per thread: the event whose dispatch is inside _get_args, the
                    \* _bracket that _get_label took before it called _get_args, and the
                    \* ledger the event found
    stack,          \* event source: per thread, the frames entered and not yet left
    sink,           \* the backend: per thread, the regions pushed and not yet popped
    out,            \* the backend calls made by the last step
    last,           \* per thread: what the last completed operation on the thread did
    supp,           \* per thread: whether the latest invocation of profiler_function was suppressed
    nops            \* operations still to run

vars == <<mode, live, count, tl, conf, disable, depth_tracker, labels, path_init,
          omnitrace_path, pc, pend, stack, sink, out, last, supp, nops>>

(***************************************************************************)
(* Bounds of the model.                                                    *)
(***************************************************************************)
\* operations of a run with arbitrary events on one thread
MaxOps == 3
\* operations of a run with properly nested calls and returns on one thread
MaxOpsNested == 6
\* operations of a run on two threads
MaxOpsThreads == 3
\* operations in a run on three threads
MaxOpsThree == 3
\* operations of a run that starts from a configured session
MaxOpsConfigured == 2
\* operations of a run of one function on two threads
MaxOpsPair == 4
\* operations of a run of one function on one thread, with argument introspection and
\* a malformed pattern
MaxOpsAbort == 5

Threads == {1, 2, 3}

(***************************************************************************)
(* Strings of the runs.                                                    *)
(***************************************************************************)
\* the character at position i of a string
Ch(s, i) == SubSeq(s, i, i)

s_foo     == "foo"
s_bar     == "bar"
s_module  == "<module>"
s_empty   == ""
s_user_py == "/w/a.py"
s_omni_py == "/omni/p.py"
\* omnitrace.__file__, as profiler_init reads it
s_omni_file == "/omni/__init__.py"
\* inspect.formatargvalues(...) of a frame with one argument
s_args    == "(x)"

p_foo     == "^foo$"
p_bar     == "^bar$"
p_a_py    == "a.py$"
\* an unbalanced parenthesis: std::regex throws regex_error
p_bad     == "(oo"

\* config::exclude_functions, the default
DefaultExcludeFunctions ==
    { "^(FILE|FUNC|LINE)$",
      "^get_fcode$",
      "^_(_exit__|handle_fromlist|shutdown|get_sep)$",
      "^is(function|class)$",
      "^basename$",
      "^<.*>$" }

\* config::exclude_filenames, the default
DefaultExcludeFilenames ==
    { "(__init__|__main__|functools|encoder|decoder|_pylab_helpers|threading).py$",
      "^<.*>$" }

(***************************************************************************)
(* std::regex_search(name, std::regex(pattern, egrep)) for the patterns    *)
(* built from literals, ^ $ . * | and groups.  Ends(p, lo, hi, n, S) is    *)
(* the set of positions of n at which a match of p[lo..hi] started at a    *)
(* position of S can end.                                                  *)
(***************************************************************************)
\* the nesting depth of position i of p, counted from position lo
ParenDepth(p, lo, i) ==
    Cardinality({j \in lo .. i - 1 : Ch(p, j) = "("}) - Cardinality({j \in lo .. i - 1 : Ch(p, j) = ")"})

Least(S) == CHOOSE i \in S : \A j \in S : i <= j

\* the parenthesis that closes the one at position lo, 0 if none does
CloseParen(p, lo) ==
    LET S == {i \in lo + 1 .. Len(p) : Ch(p, i) = ")" /\ ParenDepth(p, lo, i + 1) = 0}
    IN  IF S = {} THEN 0 ELSE Least(S)

\* the first | of p[lo..hi] outside every group, 0 if there is none
TopBar(p, lo, hi) ==
    LET S == {i \in lo .. hi : Ch(p, i) = "|" /\ ParenDepth(p, lo, i) = 0}
    IN  IF S = {} THEN 0 ELSE Least(S)

ParenBalance(p) ==
    /\ ParenDepth(p, 1, Len(p) + 1) = 0
    /\ \A i \in 1 .. Len(p) : ParenDepth(p, 1, i + 1) >= 0

\* a * with nothing to repeat: at the start of the pattern or right after ( | ^ $
BadRepeat(p) ==
    \E i \in 1 .. Len(p) :
        /\ Ch(p, i) = "*"
        /\ (i = 1 \/ Ch(p, i - 1) \in {"(", "|", "^", "$"})

\* std::regex's constructor throws on this pattern
ere_error(p) == ~ParenBalance(p) \/ BadRepeat(p)

\* the first position from i on that holds no *: a run of stars repeats the starred
\* expression, which matches what one star matches
RECURSIVE SkipStars(_, _, _)
SkipStars(p, i, hi) == IF i <= hi /\ Ch(p, i) = "*" THEN SkipStars(p, i + 1, hi) ELSE i

RECURSIVE Ends(_, _, _, _, _)
RECURSIVE StarEnds(_, _, _, _, _)
AtomEnds(p, lo, hi, n, S) ==
    IF Ch(p, lo) = "(" THEN Ends(p, lo + 1, hi - 1, n, S)
    ELSE IF Ch(p, lo) = "^" THEN S \cap {0}
    ELSE IF Ch(p, lo) = "$" THEN S \cap {Len(n)}
    ELSE IF Ch(p, lo) = "." THEN {s + 1 : s \in {x \in S : x < Len(n)}}
    ELSE {s + 1 : s \in {x \in S : x < Len(n) /\ Ch(n, x + 1) = Ch(p, lo)}}

StarEnds(p, lo, hi, n, S) ==
    LET T == S \cup AtomEnds(p, lo, hi, n, S)
    IN  IF T = S THEN S ELSE StarEnds(p, lo, hi, n, T)

Ends(p, lo, hi, n, S) ==
    IF S = {} THEN {}
    ELSE IF lo > hi THEN S
    ELSE LET bar == TopBar(p, lo, hi)
         IN  IF bar # 0
             THEN Ends(p, lo, bar - 1, n, S) \cup Ends(p, bar + 1, hi, n, S)
             ELSE LET close == IF Ch(p, lo) = "(" THEN CloseParen(p, lo) ELSE lo
                  IN  IF close < hi /\ Ch(p, close + 1) = "*"
                      THEN Ends(p, SkipStars(p, close + 1, hi), hi, n,
                                StarEnds(p, lo, close, n, S))
                      ELSE Ends(p, close + 1, hi, n, AtomEnds(p, lo, close, n, S))

ere_search(n, p) == Ends(p, 1, Len(p), n, 0 .. Len(n)) # {}

\* the names and the patterns of the runs; which patterns are malformed and
\* which names each of the others matches, computed once
RegexNames == {s_foo, s_bar, s_module, s_empty, s_user_py, s_omni_py}

RegexPatterns ==
    DefaultExcludeFunctions \cup DefaultExcludeFilenames \cup {p_foo, p_bar, p_a_py, p_bad}

RegexErrors == {p \in RegexPatterns : ere_error(p)}

RegexMatches == [p \in RegexPatterns \ RegexErrors |-> {n \in RegexNames : ere_search(n, p)}]

\* std::regex(pattern, egrep) throws regex_error
regex_error(p) == IF p \in RegexPatterns THEN p \in RegexErrors ELSE ere_error(p)

\* std::regex_search(name, std::regex(pattern, egrep)), for a well-formed pattern
regex_search(n, p) ==
    IF p \in RegexPatterns /\ n \in RegexNames THEN n \in RegexMatches[p] ELSE ere_search(n, p)

(***************************************************************************)
(* Strings: the helpers of the label builder and of the filters.           *)
(***************************************************************************)
Digits == "0123456789"

\* operator<< of an int (TIMEMORY_JOIN streams frame->f_lineno)
RECURSIVE Dec(_)
Dec(n) == IF n < 10 THEN Ch(Digits, n + 1) ELSE Dec(n \div 10) \o Ch(Digits, (n % 10) + 1)

\* std::string::find_last_of('/'): the last position of a slash, 0 for npos
RECURSIVE find_last_of_slash(_, _)
find_last_of_slash(s, i) ==
    IF i = 0 THEN 0 ELSE IF Ch(s, i) = "/" THEN i ELSE find_last_of_slash(s, i - 1)

get_basename(fullpath) ==
    LET k == find_last_of_slash(fullpath, Len(fullpath))
    IN  IF k # 0 THEN SubSeq(fullpath, k + 1, Len(fullpath)) ELSE fullpath

\* profiler_init: the directory of omnitrace.__file__
module_dir(file) ==
    LET k == find_last_of_slash(file, Len(file))
    IN  IF k # 0 THEN SubSeq(file, 1, k - 1) ELSE file

\* strncmp(full.c_str(), path.c_str(), path.length()) == 0
strncmp_eq(full, path) ==
    /\ Len(path) <= Len(full)
    /\ SubSeq(full, 1, Len(path)) = path

(***************************************************************************)
(* struct config and get_config().                                         *)
(***************************************************************************)
EmptyMap == [x \in {} |-> x]

DefaultConfig ==
    [ is_running         |-> FALSE,
      trace_c            |-> FALSE,
      include_internal   |-> FALSE,
      include_args       |-> FALSE,
      include_line       |-> FALSE,
      include_filename   |-> FALSE,
      full_filepath      |-> FALSE,
      ignore_stack_depth |-> 0,
      base_stack_depth   |-> -1,
      base_module_path   |-> "",
      include_functions  |-> {},
      include_filenames  |-> {},
      exclude_functions  |-> DefaultExcludeFunctions,
      exclude_filenames  |-> DefaultExcludeFilenames,
      records            |-> EmptyMap,
      verbose            |-> 0 ]

\* _tl_instance of a thread whose initializer has not run
NoInst == -1

\* the object the thread-local initializer allocates for a thread that is not the first
CopyOfInstance(inst) ==
    [ DefaultConfig EXCEPT
      !.is_running        = inst.is_running,
      !.trace_c           = inst.trace_c,
      !.include_internal  = inst.include_internal,
      !.include_args      = inst.include_args,
      !.include_line      = inst.include_line,
      !.include_filename  = inst.include_filename,
      !.full_filepath     = inst.full_filepath,
      !.base_module_path  = inst.base_module_path,
      !.include_functions = inst.include_functions,
      !.include_filenames = inst.include_filenames,
      !.exclude_functions = inst.exclude_functions,
      !.exclude_filenames = inst.exclude_filenames,
      !.verbose           = inst.verbose ]

\* get_config() on thread t: the object it returns, and the objects, the
\* thread-local pointers and the counter after the call
get_config_id(t) == IF tl[t] # NoInst THEN tl[t] ELSE IF count = 0 THEN 0 ELSE t

get_config_conf(t) ==
    IF tl[t] # NoInst \/ count = 0 THEN conf
    ELSE [conf EXCEPT ![t] = CopyOfInstance(conf[0])]

get_config_tl(t) == [tl EXCEPT ![t] = get_config_id(t)]

get_config_count(t) == IF tl[t] # NoInst THEN count ELSE count + 1

\* the configuration thread t works with: its object once it has one
config_of(t) == get_config_conf(t)[get_config_id(t)]

(***************************************************************************)
(* profiler_function: the pure parts.                                      *)
(***************************************************************************)
PyTrace_CALL     == 0
PyTrace_RETURN   == 3
PyTrace_C_CALL   == 4
PyTrace_C_RETURN == 6

what_of(swhat) ==
    IF swhat = "call" THEN PyTrace_CALL
    ELSE IF swhat = "c_call" THEN PyTrace_C_CALL
    ELSE IF swhat = "return" THEN PyTrace_RETURN
    ELSE IF swhat = "c_return" THEN PyTrace_C_RETURN
    ELSE -1

is_call(swhat)   == what_of(swhat) \in {PyTrace_CALL, PyTrace_C_CALL}
is_return(swhat) == what_of(swhat) \in {PyTrace_RETURN, PyTrace_C_RETURN}

\* fault: a matcher that takes a malformed pattern for one that matches nothing
find_matching_nothrow(expr, name) ==
    IF \E p \in expr : ~regex_error(p) /\ regex_search(name, p) THEN {"true"} ELSE {"false"}

\* _find_matching: the results the iteration over the unordered set can give.  It
\* returns true at the first pattern that matches and the regex constructor throws
\* at the first malformed one, whichever the iteration meets first.
find_matching(expr, name) ==
    LET bad == \E p \in expr : regex_error(p)
        hit == \E p \in expr : ~regex_error(p) /\ regex_search(name, p)
    IN  (IF hit THEN {"true"} ELSE {})
        \cup (IF bad THEN {"throw"} ELSE {})
        \cup (IF ~hit /\ ~bad THEN {"false"} ELSE {})

\* the filter steps in the order of the code: a step rejects, throws or goes on
Then(step, rest) == (step \ {"go"}) \cup (IF "go" \in step THEN rest ELSE {})

only_step(only, name, verdict) ==
    IF only = {} THEN {"go"}
    ELSE { IF r = "true" THEN "go" ELSE IF r = "false" THEN verdict ELSE "throw" :
           r \in find_matching(only, name) }

\* fault: a skip filter that lets every name through
skip_step_off(skip, name, verdict) == {"go"}

skip_step(skip, name, verdict) ==
    { IF r = "false" THEN "go" ELSE IF r = "true" THEN verdict ELSE "throw" :
      r \in find_matching(skip, name) }

internal_step(c, path, full) ==
    IF ~c.include_internal /\ strncmp_eq(full, path) THEN {"internal"} ELSE {"go"}

\* lines 152-292: the verdicts an event can get before the label is built
Decide(c, path, swhat, fr) ==
    IF fr.null THEN {"null"}
    ELSE IF what_of(swhat) < 0 THEN {"what"}
    ELSE IF ~c.trace_c /\ what_of(swhat) \in {PyTrace_C_CALL, PyTrace_C_RETURN} THEN {"c_off"}
    ELSE Then(only_step(c.include_functions, fr.func, "only_func"),
         Then(skip_step(c.exclude_functions, fr.func, "skip_func"),
         Then(internal_step(c, path, fr.file),
         Then(only_step(c.include_filenames, fr.file, "only_file"),
         Then(skip_step(c.exclude_filenames, fr.file, "skip_file"),
              {"pass"})))))

\* fault: a label that takes the basename whatever full_filepath says
get_label_basename(c0, c, func, filename, fullpath, lineno, args) ==
    LET l1 == IF c0.include_filename THEN "[" \o func ELSE func
        l2 == IF c0.include_args THEN l1 \o args ELSE l1
        l3 == IF c0.include_filename THEN l2 \o "]" ELSE l2
        l4 == IF c.include_filename THEN l3 \o "[" \o filename ELSE l3
    IN  IF c.include_line /\ c.include_filename THEN l4 \o ":" \o Dec(lineno) \o "]"
        ELSE IF c.include_line THEN l4 \o ":" \o Dec(lineno)
        ELSE IF c.include_filename THEN l4 \o "]"
        ELSE l4

\* _get_label.  c0 is the configuration when _get_label starts, which gives _bracket
\* and decides whether _get_args is called; c is the configuration when _get_args has
\* returned, which the python code run by _get_args may have changed.
get_label(c0, c, func, filename, fullpath, lineno, args) ==
    LET bracket == c0.include_filename
        l1 == IF bracket THEN "[" \o func ELSE func
        l2 == IF c0.include_args THEN l1 \o args ELSE l1
        l3 == IF bracket THEN l2 \o "]" ELSE l2
        l4 == IF c.include_filename
              THEN l3 \o "[" \o (IF c.full_filepath THEN fullpath ELSE filename)
              ELSE l3
    IN  IF c.include_line /\ c.include_filename THEN l4 \o ":" \o Dec(lineno) \o "]"
        ELSE IF c.include_line THEN l4 \o ":" \o Dec(lineno)
        ELSE IF c.include_filename THEN l4 \o "]"
        ELSE l4

\* the key of profiler_index_map_t for a depth: the int32_t converted to uint32_t,
\* written <<high 16 bits, low 16 bits>>
U32(d) ==
    IF d >= 0 THEN <<d \div 65536, d % 65536>>
    ELSE <<65535 - ((-d - 1) \div 65536), 65535 - ((-d - 1) % 65536)>>

\* _config.records[_fdepth][_label], without creating it
entry_of(recs, key, label) ==
    IF key \in DOMAIN recs /\ label \in DOMAIN recs[key] THEN recs[key][label] ELSE <<>>

\* the handles a ledger holds
handles(recs) ==
    Cardinality({ <<k, l, i>> \in UNION { UNION { {<<k, l, i>> : i \in 1 .. Len(recs[k][l])} :
                                                  l \in DOMAIN recs[k] } : k \in DOMAIN recs } : TRUE })

\* _profiler_call: the handle is the pair of closures bound to the interned label
profiler_call(recs, key, label, label_ref) ==
    LET lm == IF key \in DOMAIN recs THEN recs[key] ELSE EmptyMap
    IN  (key :> ((label :> Append(entry_of(recs, key, label), label_ref)) @@ lm)) @@ recs

\* _profiler_return: whether it finds a handle, and the ledger after it
return_hits(recs, key, label) == entry_of(recs, key, label) # <<>>

\* fault: a return that looks its entry up with operator[] and so creates it
profiler_return_create(recs, key, label) ==
    IF entry_of(recs, key, label) # <<>>
    THEN [recs EXCEPT ![key][label] = SubSeq(@, 1, Len(@) - 1)]
    ELSE LET lm == IF key \in DOMAIN recs THEN recs[key] ELSE EmptyMap
         IN  (key :> ((label :> entry_of(recs, key, label)) @@ lm)) @@ recs

profiler_return(recs, key, label) ==
    IF return_hits(recs, key, label)
    THEN [recs EXCEPT ![key][label] = SubSeq(@, 1, Len(@) - 1)]
    ELSE recs

\* omnitrace_push_region / omnitrace_pop_region: the backend's open regions of a thread
push_region(open, label) == Append(open, label)

RECURSIVE last_index_of(_, _, _)
last_index_of(open, label, i) ==
    IF i = 0 THEN 0 ELSE IF open[i] = label THEN i ELSE last_index_of(open, label, i - 1)

pop_region(open, label) ==
    LET k == last_index_of(open, label, Len(open))
    IN  IF k = 0 THEN open ELSE SubSeq(open, 1, k - 1) \o SubSeq(open, k + 1, Len(open))

(***************************************************************************)
(* The events of the runs and the bookkeeping of the event source.         *)
(***************************************************************************)
Frame(func, file, line) == [null |-> FALSE, func |-> func, file |-> file, line |-> line]

\* pframe.is_none() || pframe.ptr() == nullptr
NullFrame == [null |-> TRUE, func |-> "", file |-> "", line |-> 0]

AllFrames ==
    { Frame(s_foo, s_user_py, 10), Frame(s_foo, s_user_py, 12), Frame(s_bar, s_user_py, 10),
      Frame(s_module, s_user_py, 10), Frame(s_foo, s_omni_py, 10), Frame(s_empty, s_user_py, 10),
      NullFrame }

\* the frames and the event kinds the event source delivers in a run
Frames ==
    IF mode = "any" THEN AllFrames
    ELSE IF mode = "configured" THEN AllFrames \ {Frame(s_foo, s_user_py, 12)}
    ELSE IF mode = "nested"
    THEN {Frame(s_foo, s_user_py, 10), Frame(s_foo, s_user_py, 12), Frame(s_bar, s_user_py, 10)}
    ELSE IF mode \in {"three", "abort"} THEN {Frame(s_foo, s_user_py, 10)}
    ELSE IF mode = "pair" THEN {Frame(s_foo, s_user_py, 10), NullFrame}
    ELSE {Frame(s_foo, s_user_py, 10), Frame(s_foo, s_omni_py, 10)}

Whats ==
    IF mode \in {"any", "configured"} THEN {"call", "c_call", "return", "c_return", "line"}
    ELSE {"call", "return"}

NoEvent == [swhat |-> "none", fr |-> NullFrame, bracket |-> FALSE, recs |-> EmptyMap]

\* what an operation did: its kind, its outcome, the label and the depth of an event
\* that got one, the handles at its ledger entry (for a session operation: in the
\* whole ledger; for an event that a failure aborted: in the whole ledger when the
\* event came and when the failure left profiler_function) before and after it, the
\* backend calls it made, and the outcome of the operation before it
NoLast == [op |-> "none", what |-> "none", status |-> "none", label |-> "", d |-> 0,
           pre |-> 0, post |-> 0, calls |-> <<>>, prev |-> "none"]

\* the dispatch went past every filter and built a non-empty label
accepted(status) == status \in {"begin", "end", "miss"}

\* whether a return was accepted exactly if the call of its frame was
like_its_call(top, status) == accepted(top.st) <=> accepted(status)

\* the frames of the thread after an event of the event source was dispatched
frames_after(fs, swhat, fr, status, label, d) ==
    IF mode # "nested" \/ fr.null THEN fs
    ELSE IF is_call(swhat)
    THEN Append(fs, [func |-> fr.func, file |-> fr.file, native |-> (swhat = "c_call"),
                     st |-> status, label |-> label, d |-> d, ok |-> TRUE])
    ELSE IF is_return(swhat) /\ fs # <<>>
    THEN LET rest == SubSeq(fs, 1, Len(fs) - 1)
         IN  IF like_its_call(fs[Len(fs)], status) THEN rest
             ELSE [i \in 1 .. Len(rest) |-> [rest[i] EXCEPT !.ok = FALSE]]
    ELSE fs

\* the events the event source can deliver to thread t
event_allowed(t, swhat, fr) ==
    \/ mode # "nested"
    \/ is_call(swhat)
    \/ /\ is_return(swhat)
       /\ stack[t] # <<>>
       /\ LET top == stack[t][Len(stack[t])]
          IN  top.func = fr.func /\ top.file = fr.file /\ top.native = (swhat = "c_return")

(***************************************************************************)
(* profiler_function.                                                      *)
(***************************************************************************)
\* _disable = true
enter(t) == [disable EXCEPT ![t] = TRUE]

\* fault: a dispatch that leaves the flag as it is
dtor_forget(flags, t) == flags

\* tim::scope::destructor _dtor: the flags after the dispatch leaves its scope
dtor(flags, t) == [flags EXCEPT ![t] = FALSE]

\* fault: a dispatch without the re-entrancy check
suppressed_never(t) == FALSE

\* if(_disable) return;
suppressed(t) == disable[t]

\* the end of a dispatch, by return or by exception
Finish(t, swhat, fr, status, label, d, pre, post, calls) ==
    /\ disable' = dtor(enter(t), t)
    /\ pc' = [pc EXCEPT ![t] = "idle"]
    /\ pend' = [pend EXCEPT ![t] = NoEvent]
    /\ out' = calls
    /\ last' = [last EXCEPT ![t] = [op |-> "event", what |-> swhat, status |-> status,
                                    label |-> label, d |-> d, pre |-> pre, post |-> post,
                                    calls |-> calls, prev |-> last[t].status]]
    /\ stack' = [stack EXCEPT ![t] = frames_after(stack[t], swhat, fr, status, label, d)]

\* fault: a return that takes the counter before decrementing it (_depth_tracker--)
fdepth_post(t, swhat) == depth_tracker[t]

\* _depth_tracker++ and --_depth_tracker: the depth of the event, the counter after it
fdepth_of(t, swhat) == IF is_call(swhat) THEN depth_tracker[t] ELSE depth_tracker[t] - 1

\* fault: a return that leaves the counter as it is
depth_after_call_only(t, swhat) ==
    IF is_call(swhat) THEN depth_tracker[t] + 1 ELSE depth_tracker[t]

depth_after(t, swhat) == IF is_call(swhat) THEN depth_tracker[t] + 1 ELSE depth_tracker[t] - 1

\* fault: the depth counter moves before the empty label is rejected
record_event_eager(t, id, cm, c0, swhat, fr, args) ==
    LET label == get_label(c0, cm[id], fr.func, get_basename(fr.file), fr.file, fr.line, args)
    IN  /\ Finish(t, swhat, fr, IF label = "" THEN "empty" ELSE "miss", label, 0, 0, 0, <<>>)
        /\ conf' = cm
        /\ depth_tracker' = [depth_tracker EXCEPT ![t] = depth_after(t, swhat)]
        /\ UNCHANGED <<labels, sink>>

\* lines 298-347: the label, the registry, the depth and the ledger
record_event(t, id, cm, c0, swhat, fr, args) ==
    LET c      == cm[id]
        label  == get_label(c0, c, fr.func, get_basename(fr.file), fr.file, fr.line, args)
        fdepth == fdepth_of(t, swhat)
        key    == U32(fdepth)
        pre    == Len(entry_of(c.records, key, label))
    IN  IF label = ""
        THEN /\ Finish(t, swhat, fr, "empty", label, 0, 0, 0, <<>>)
             /\ conf' = cm
             /\ UNCHANGED <<depth_tracker, labels, sink>>
        ELSE /\ labels' = [labels EXCEPT ![t] = @ \cup {label}]
             /\ depth_tracker' = [depth_tracker EXCEPT ![t] = depth_after(t, swhat)]
             /\ IF is_call(swhat)
                THEN /\ conf' = [cm EXCEPT ![id].records = profiler_call(@, key, label, label)]
                     /\ sink' = [sink EXCEPT ![t] = push_region(@, label)]
                     /\ Finish(t, swhat, fr, "begin", label, fdepth, pre, pre + 1,
                               << <<t, "beginRegion", label>> >>)
                ELSE IF return_hits(c.records, key, label)
                THEN LET handle == entry_of(c.records, key, label)[pre]
                     IN  /\ conf' = [cm EXCEPT ![id].records = profiler_return(@, key, label)]
                         /\ sink' = [sink EXCEPT ![t] = pop_region(@, handle)]
                         /\ Finish(t, swhat, fr, "end", label, fdepth, pre, pre - 1,
                                   << <<t, "endRegion", handle>> >>)
                ELSE /\ conf' = [cm EXCEPT ![id].records = profiler_return(@, key, label)]
                     /\ sink' = sink
                     /\ Finish(t, swhat, fr, "miss", label, fdepth, pre, pre, <<>>)

\* the dispatch calls _get_args, which runs python code on the thread
suspend(t, cm, at, swhat, fr, bracket) ==
    /\ disable' = enter(t)
    /\ pc' = [pc EXCEPT ![t] = at]
    /\ pend' = [pend EXCEPT ![t] = [swhat |-> swhat, fr |-> fr, bracket |-> bracket,
                                     recs |-> IF pc[t] = "idle"
                                              THEN cm[get_config_id(t)].records
                                              ELSE pend[t].recs]]
    /\ conf' = cm
    /\ out' = <<>>
    /\ UNCHANGED <<depth_tracker, labels, stack, sink, last>>

\* l.298: _get_label starts; it calls _get_args when include_args is set
label_stage(t, id, cm, swhat, fr) ==
    IF cm[id].include_args
    THEN suspend(t, cm, "args", swhat, fr, cm[id].include_filename)
    ELSE record_event(t, id, cm, cm[id], swhat, fr, "")

\* one invocation of profiler_function on thread t, up to its end or to _get_args
profiler_function(t, swhat, fr) ==
    LET id == get_config_id(t)
        cm == get_config_conf(t)
        c  == cm[id]
    IN  /\ tl' = get_config_tl(t)
        /\ count' = get_config_count(t)
        /\ IF suppressed(t)
           THEN /\ conf' = cm
                /\ out' = <<>>
                /\ supp' = [supp EXCEPT ![t] = TRUE]
                /\ UNCHANGED <<disable, depth_tracker, labels, path_init, omnitrace_path,
                               pc, pend, stack, sink, last>>
           ELSE LET path == IF path_init \/ fr.null THEN omnitrace_path ELSE c.base_module_path
                IN  /\ supp' = [supp EXCEPT ![t] = FALSE]
                    /\ path_init' = (path_init \/ ~fr.null)
                    /\ omnitrace_path' = path
                    /\ \E v \in Decide(c, path, swhat, fr) :
                         IF v = "pass" /\ c.verbose > 3
                         THEN suspend(t, cm, "diag", swhat, fr, FALSE)
                         ELSE IF v = "pass"
                         THEN label_stage(t, id, cm, swhat, fr)
                         ELSE /\ Finish(t, swhat, fr, v, "", 0,
                                        IF v = "throw" THEN handles(c.records) ELSE 0,
                                        IF v = "throw" THEN handles(c.records) ELSE 0, <<>>)
                              /\ conf' = cm
                              /\ UNCHANGED <<depth_tracker, labels, sink>>

\* the event source delivers an event to thread t
Dispatch(t, swhat, fr) ==
    /\ pc[t] = "idle"
    /\ nops > 0
    /\ event_allowed(t, swhat, fr)
    /\ nops' = nops - 1
    /\ profiler_function(t, swhat, fr)
    /\ UNCHANGED <<mode, live>>

\* the introspection inside _get_args runs python code, whose events come back to
\* profiler_function on the same thread
Reenter(t, swhat, fr) ==
    /\ pc[t] # "idle"
    /\ profiler_function(t, swhat, fr)
    /\ UNCHANGED <<mode, live, nops>>

\* what _get_label read of the configuration before it called _get_args
config_at_label(c, ev) == [c EXCEPT !.include_filename = ev.bracket, !.include_args = TRUE]

\* _get_args returns the string, swallows an AttributeError, or lets another error
\* through; after the call for the trace line the dispatch goes on to _get_label
ArgsDone(t, result) ==
    /\ pc[t] # "idle"
    /\ LET ev == pend[t]
       IN  IF result = "error"
           THEN /\ Finish(t, ev.swhat, ev.fr, "throw", "", 0, handles(ev.recs),
                          handles(conf[tl[t]].records), <<>>)
                /\ UNCHANGED <<conf, depth_tracker, labels, sink>>
           ELSE IF pc[t] = "diag"
           THEN label_stage(t, tl[t], conf, ev.swhat, ev.fr)
           ELSE record_event(t, tl[t], conf, config_at_label(conf[tl[t]], ev), ev.swhat, ev.fr,
                             IF result = "ok" THEN s_args ELSE "")
    /\ UNCHANGED <<mode, live, count, tl, path_init, omnitrace_path, supp, nops>>

(***************************************************************************)
(* generate(): profiler_init, profiler_finalize and the properties of      *)
(* the config class.                                                       *)
(***************************************************************************)
AllBoolProperties == {"_is_running", "trace_c", "include_internal", "include_args",
                      "include_line", "include_filename", "full_filepath"}

AllStrsetProperties == {"only_functions", "only_filenames", "skip_functions", "skip_filenames"}

\* the properties a run reads and writes, and what it writes
BoolProperties ==
    IF mode = "any" THEN AllBoolProperties
    ELSE IF mode = "nested" THEN {"include_line", "include_args"}
    ELSE IF mode \in {"three", "pair"} THEN {"include_internal"}
    ELSE IF mode = "abort" THEN {"include_args"}
    ELSE IF mode = "configured" THEN {"include_filename"}
    ELSE {"trace_c", "include_internal"}

StrsetProperties ==
    IF mode = "any" THEN AllStrsetProperties ELSE {"skip_functions"}

Verbosities == IF mode \in {"nested", "configured", "abort"} THEN {0} ELSE {0, 4}

PatternLists ==
    IF mode = "any" THEN { <<>>, <<p_foo>>, <<p_a_py>>, <<p_bad>> }
    ELSE IF mode = "abort" THEN { <<p_bad>> }
    ELSE { <<p_foo>> }

\* whether omnitrace.__file__ casts to a string
FileOk == IF mode = "any" THEN BOOLEAN ELSE {TRUE}

\* the field of struct config behind a property
field_of(name) ==
    CASE name = "_is_running"    -> "is_running"
      [] name = "verbosity"      -> "verbose"
      [] name = "only_functions" -> "include_functions"
      [] name = "only_filenames" -> "include_filenames"
      [] name = "skip_functions" -> "exclude_functions"
      [] name = "skip_filenames" -> "exclude_filenames"
      [] OTHER                   -> name

\* an operation of the control surface on thread t that turns its config object into
\* c, called by the program or by the python code that _get_args runs
control(t, what, status, c) ==
    LET id == get_config_id(t)
        cm == get_config_conf(t)
    IN  /\ nops > 0
        /\ nops' = nops - 1
        /\ tl' = get_config_tl(t)
        /\ count' = get_config_count(t)
        /\ conf' = [cm EXCEPT ![id] = c]
        /\ out' = <<>>
        /\ last' = [last EXCEPT ![t] = [NoLast EXCEPT !.op = "control", !.what = what,
                                         !.status = status,
                                         !.pre = handles(cm[id].records),
                                         !.post = handles(c.records),
                                         !.prev = last[t].status]]
        /\ UNCHANGED <<mode, live, disable, depth_tracker, labels, path_init, omnitrace_path,
                       pc, pend, stack, sink, supp>>

\* fault: a start that clears the records of a running session
init_config_clear(c, file_ok) ==
    [c EXCEPT !.base_module_path = IF file_ok THEN module_dir(s_omni_file) ELSE @,
              !.records = EmptyMap, !.base_stack_depth = -1, !.is_running = TRUE]

\* _init: the config object after it
init_config(c, file_ok) ==
    LET c1 == IF file_ok THEN [c EXCEPT !.base_module_path = module_dir(s_omni_file)] ELSE c
    IN  IF c1.is_running THEN c1
        ELSE [c1 EXCEPT !.records = EmptyMap, !.base_stack_depth = -1, !.is_running = TRUE]

profiler_init(t, file_ok) ==
    control(t, "profiler_init", IF config_of(t).is_running THEN "running" ELSE "start",
            init_config(config_of(t), file_ok))

\* _fini: the config object after it
fini_config(c) ==
    IF ~c.is_running THEN c
    ELSE [c EXCEPT !.is_running = FALSE, !.base_stack_depth = -1, !.records = EmptyMap]

profiler_finalize(t) ==
    control(t, "profiler_finalize", IF config_of(t).is_running THEN "stop" ELSE "stopped",
            fini_config(config_of(t)))

\* CONFIGURATION_PROPERTY: the getter and the setter
get_property(t, name) == control(t, "get", "get", config_of(t))

set_property(t, name, val) ==
    control(t, "set", "set", [config_of(t) EXCEPT ![field_of(name)] = val])

\* _get_strset: the elements of the list it returns
get_strset(targ) == targ

\* _set_strset
RECURSIVE set_strset(_, _)
set_strset(inp, targ) ==
    IF inp = <<>> THEN targ ELSE set_strset(Tail(inp), targ \cup {Head(inp)})

\* CONFIGURATION_STRSET: the setter
set_strset_property(t, name, inp) ==
    control(t, "set_strset", "set",
            [config_of(t) EXCEPT ![field_of(name)] = set_strset(inp, @)])

(***************************************************************************)
(* The specifications.                                                     *)
(***************************************************************************)
InitWith(m, threads, n) ==
    /\ mode = m
    /\ live = threads
    /\ count = 0
    /\ tl = [t \in Threads |-> NoInst]
    /\ conf = [i \in {0} \cup Threads |-> DefaultConfig]
    /\ disable = [t \in Threads |-> FALSE]
    /\ depth_tracker = [t \in Threads |-> 0]
    /\ labels = [t \in Threads |-> {}]
    /\ path_init = FALSE
    /\ omnitrace_path = ""
    /\ pc = [t \in Threads |-> "idle"]
    /\ pend = [t \in Threads |-> NoEvent]
    /\ stack = [t \in Threads |-> <<>>]
    /\ sink = [t \in Threads |-> <<>>]
    /\ out = <<>>
    /\ last = [t \in Threads |-> NoLast]
    /\ supp = [t \in Threads |-> FALSE]
    /\ nops = n

DispatchStep == \E t \in live, swhat \in Whats, fr \in Frames : Dispatch(t, swhat, fr)

ReenterStep == \E t \in live, swhat \in Whats, fr \in Frames : Reenter(t, swhat, fr)

ArgsDoneStep == \E t \in live, result \in {"ok", "attribute_error", "error"} : ArgsDone(t, result)

InitStep == \E t \in live, file_ok \in FileOk : profiler_init(t, file_ok)

FiniStep == \E t \in live : profiler_finalize(t)

GetStep == \E t \in live, name \in BoolProperties : get_property(t, name)

SetStep ==
    \E t \in live :
        \/ \E name \in BoolProperties, val \in BOOLEAN : set_property(t, name, val)
        \/ \E val \in Verbosities : set_property(t, "verbosity", val)

SetStrsetStep ==
    \E t \in live, name \in StrsetProperties, inp \in PatternLists :
        set_strset_property(t, name, inp)

Next ==
    \/ DispatchStep
    \/ ReenterStep
    \/ ArgsDoneStep
    \/ InitStep
    \/ FiniStep
    \/ GetStep
    \/ SetStep
    \/ SetStrsetStep

\* arbitrary events on one thread
Init == InitWith("any", {1}, MaxOps)
Spec == Init /\ [][Next]_vars

\* properly nested calls and returns on one thread
InitNested == InitWith("nested", {1}, MaxOpsNested)
SpecNested == InitNested /\ [][Next]_vars

\* arbitrary events on two threads
InitThreads == InitWith("threads", {1, 2}, MaxOpsThreads)
SpecThreads == InitThreads /\ [][Next]_vars

\* calls and returns of one function on three threads
InitThree == InitWith("three", Threads, MaxOpsThree)
SpecThree == InitThree /\ [][Next]_vars

\* calls and returns of one function on two threads
InitPair == InitWith("pair", {1, 2}, MaxOpsPair)
SpecPair == InitPair /\ [][Next]_vars

\* calls and returns of one function on one thread
InitAbort == InitWith("abort", {1}, MaxOpsAbort)
SpecAbort == InitAbort /\ [][Next]_vars

\* the instance after profiler_init and the setters of the label flags
LabelInstances ==
    { [ init_config(DefaultConfig, TRUE) EXCEPT
          !.include_internal = TRUE,
          !.include_line     = il,
          !.include_filename = ifn,
          !.full_filepath    = ff ] :
        il \in BOOLEAN, ifn \in BOOLEAN, ff \in BOOLEAN }

\* the instance after profiler_init and the setters of include_internal and of the
\* pattern sets
FilterInstances ==
    { [ init_config(DefaultConfig, TRUE) EXCEPT
          !.include_internal  = TRUE,
          !.include_functions = set_strset(ofu, @),
          !.exclude_functions = set_strset(sfu, @),
          !.include_filenames = set_strset(ofi, @),
          !.exclude_filenames = set_strset(sfi, @) ] :
        ofu \in {<<>>, <<p_foo>>}, sfu \in {<<>>, <<p_foo>>},
        ofi \in {<<>>, <<p_a_py>>}, sfi \in {<<>>, <<p_a_py>>} }

\* the instance after profiler_init and the setters of the skip sets, with the
\* self-exclusion on
SelfExcludingInstances ==
    { [ init_config(DefaultConfig, TRUE) EXCEPT
          !.exclude_functions = set_strset(sfu, @),
          !.exclude_filenames = set_strset(sfi, @) ] :
        sfu \in {<<>>, <<p_foo>>}, sfi \in {<<>>, <<p_a_py>>} }

\* the instance after profiler_init and the setters of include_internal, include_args
\* and include_filename
ArgsInstances ==
    { [ init_config(DefaultConfig, TRUE) EXCEPT
          !.include_internal = TRUE,
          !.include_args     = TRUE,
          !.include_filename = ifn ] :
        ifn \in BOOLEAN }

ConfiguredInstances ==
    LabelInstances \cup FilterInstances \cup SelfExcludingInstances \cup ArgsInstances

\* arbitrary events on one thread that has started and configured the session and has
\* read a property twice since
InitConfigured ==
    /\ mode = "configured"
    /\ live = {1}
    /\ count = 1
    /\ tl = [t \in Threads |-> IF t = 1 THEN 0 ELSE NoInst]
    /\ \E inst \in ConfiguredInstances :
           conf = [i \in {0} \cup Threads |-> IF i = 0 THEN inst ELSE DefaultConfig]
    /\ disable = [t \in Threads |-> FALSE]
    /\ depth_tracker = [t \in Threads |-> 0]
    /\ labels = [t \in Threads |-> {}]
    /\ path_init = FALSE
    /\ omnitrace_path = ""
    /\ pc = [t \in Threads |-> "idle"]
    /\ pend = [t \in Threads |-> NoEvent]
    /\ stack = [t \in Threads |-> <<>>]
    /\ sink = [t \in Threads |-> <<>>]
    /\ out = <<>>
    /\ last = [t \in Threads |->
                 IF t = 1 THEN [NoLast EXCEPT !.op = "control", !.what = "get",
                                              !.status = "get", !.prev = "get"]
                 ELSE NoLast]
    /\ supp = [t \in Threads |-> FALSE]
    /\ nops = MaxOpsConfigured
SpecConfigured == InitConfigured /\ [][Next]_vars

(***************************************************************************)
(* Properties.                                                             *)
(***************************************************************************)
\* the ledger of thread t
ledger_of(t) == IF tl[t] = NoInst THEN EmptyMap ELSE conf[tl[t]].records

\* how often x occurs in seq
Occ(seq, x) == Cardinality({i \in 1 .. Len(seq) : seq[i] = x})

\* the regions of thread t the backend has open and the ledger no longer holds
Abandoned(t) == Len(sink[t]) - handles(ledger_of(t))

\* every endRegion of the step on thread t answers an earlier beginRegion of the same
\* label, and runs the last handle of the ledger entry at the depth and label of an
\* accepted return, which it removes
EndsMatch(t) ==
    \A i \in 1 .. Len(out') :
        (out'[i][1] = t /\ out'[i][2] = "endRegion") =>
            LET b     == last'[t]
                entry == entry_of(ledger_of(t), U32(b.d), b.label)
            IN  /\ Occ(sink[t], out'[i][3]) > 0
                /\ Len(sink'[t]) = Len(sink[t]) - 1
                /\ b.op = "event" /\ is_return(b.what) /\ b.status = "end"
                /\ entry # <<>>
                /\ entry[Len(entry)] = b.label
                /\ out'[i][3] = b.label
                /\ entry_of(ledger_of(t)', U32(b.d), b.label) = SubSeq(entry, 1, Len(entry) - 1)
                /\ handles(ledger_of(t)') = handles(ledger_of(t)) - 1

\* every beginRegion of the step on thread t comes from an accepted call, which pushes
\* its handle at its depth and label
BeginsPush(t) ==
    \A i \in 1 .. Len(out') :
        (out'[i][1] = t /\ out'[i][2] = "beginRegion") =>
            LET b == last'[t]
            IN  /\ b.op = "event" /\ is_call(b.what) /\ b.status = "begin"
                /\ out'[i][3] = b.label
                /\ sink'[t] = Append(sink[t], b.label)
                /\ entry_of(ledger_of(t)', U32(b.d), b.label)
                       = Append(entry_of(ledger_of(t), U32(b.d), b.label), b.label)

\* C1: on every thread endRegion calls never outnumber the beginRegion calls
\* of their label, every endRegion runs a handle pushed by an earlier accepted call at
\* the same depth and label and not ended before, and a begun region leaves the ledger
\* without an endRegion only by a session stop.
C1_OnlyStopAbandons ==
    [][\A t \in live :
          /\ EndsMatch(t)
          /\ BeginsPush(t)
          /\ Abandoned(t) >= 0
          /\ Abandoned(t)' # Abandoned(t) =>
                 /\ Abandoned(t)' > Abandoned(t)
                 /\ profiler_finalize(t)]_vars

\* C2: when an accepted call (or native call) on a thread is immediately followed on
\* that thread by an accepted return (or native return) with the same label, the call
\* made exactly one beginRegion and the return makes exactly one endRegion, both with
\* that label, at the same depth, and the ledger stack at that depth and label is as
\* long afterwards as it was before the call.
C2_CallThenReturn ==
    [][\A t \in live :
          LET a == last[t]
              b == last'[t]
          IN  ( /\ a.op = "event" /\ is_call(a.what) /\ accepted(a.status)
                /\ b.op = "event" /\ is_return(b.what) /\ accepted(b.status)
                /\ b.label = a.label )
              => /\ a.calls = << <<t, "beginRegion", a.label>> >>
                 /\ b.calls = << <<t, "endRegion", a.label>> >>
                 /\ out' = b.calls
                 /\ b.d = a.d
                 /\ b.post = a.pre
                 /\ Len(entry_of(ledger_of(t)', U32(a.d), a.label)) = a.pre]_vars

\* a thread other than the first of the process has ended the region of a call with
\* its immediate return
C2_Witness ==
    \E t \in live :
        /\ tl[t] = t
        /\ last[t].op = "event" /\ is_return(last[t].what) /\ last[t].status = "end"
        /\ last[t].prev = "begin"
        /\ out = << <<t, "endRegion", last[t].label>> >>

\* C5: an invocation of the dispatcher on a thread whose dispatch is active (inside
\* the argument formatting) makes no backend call and leaves the ledger, the label
\* registry, the depth counter and the active dispatch as they are.
C5_ReentryNoOp ==
    [][\A t \in live :
          (\E swhat \in Whats, fr \in Frames : Reenter(t, swhat, fr)) =>
              /\ out' = <<>>
              /\ UNCHANGED <<conf, labels, depth_tracker, sink, disable, pc, pend, last>>]_vars

\* a call was re-entered while it formatted its arguments, and completed as the first
\* call of the thread: one beginRegion, depth 0, the counter at 1
C5_Witness ==
    \E t \in live :
        /\ supp[t]
        /\ pc[t] = "idle"
        /\ last[t].status = "begin"
        /\ last[t].d = 0
        /\ depth_tracker[t] = 1
        /\ labels[t] = {last[t].label}
        /\ out = << <<t, "beginRegion", last[t].label>> >>

\* C6: the re-entrancy flag of a thread is false whenever no dispatch is active on the
\* thread, whatever way the last dispatch ended, and true while one is active; a
\* suppressed nested invocation does not clear it.
C6_FlagRestored ==
    \A t \in live :
        /\ pc[t] = "idle" => ~disable[t]
        /\ pc[t] # "idle" => disable[t]

\* a dispatch that was re-entered during the argument formatting ended by a propagated
\* exception, and the flag is false again
C6_Witness ==
    \E t \in live :
        /\ supp[t]
        /\ last[t].op = "event"
        /\ last[t].status = "throw"
        /\ pc[t] = "idle"
        /\ ~disable[t]

\* C7: from every state, finalizeSession leaves the thread's ledger without
\* any handle, so that no return finds an entry, and makes no backend call.
C7_StopAlwaysDiscards ==
    [][\A t \in live :
          profiler_finalize(t) => /\ handles(ledger_of(t)') = 0
                                  /\ out' = <<>>]_vars

\* C9: setting a pattern set replaces it: afterwards the set holds exactly the
\* patterns of the list given, whatever it held before.
C9_ReplaceWholeSet ==
    [][\A t \in live, name \in StrsetProperties, inp \in PatternLists :
          set_strset_property(t, name, inp) =>
              get_strset(conf'[tl'[t]][field_of(name)]) = {inp[i] : i \in 1 .. Len(inp)}]_vars

\* C3: on a properly nested stream of calls and returns, whatever the configuration
\* at each event, every endRegion closes the region of its thread that was begun last
\* among those not yet ended, and that region has the label of the endRegion.
C3_EndsInLifoOrder ==
    [][\A t \in live : \A i \in 1 .. Len(out') :
          (out'[i][1] = t /\ out'[i][2] = "endRegion") =>
              /\ sink[t] # <<>>
              /\ sink[t][Len(sink[t])] = out'[i][3]
              /\ sink'[t] = SubSeq(sink[t], 1, Len(sink[t]) - 1)]_vars

\* the frame of the event source a return on thread t answers
top_frame(t) == stack[t][Len(stack[t])]

\* the step completes a return on thread t that is accepted, for a frame whose call was
\* accepted
AcceptedReturnOfAcceptedCall(t) ==
    /\ mode = "nested"
    /\ stack[t] # <<>>
    /\ Len(stack'[t]) = Len(stack[t]) - 1
    /\ accepted(top_frame(t).st)
    /\ last'[t].op = "event" /\ is_return(last'[t].what) /\ accepted(last'[t].status)

\* C4 as stated: on a properly nested stream, the depth of an accepted return is the
\* depth of the accepted call of its frame.
C4_ReturnDepthIsCallDepth ==
    [][\A t \in live :
          AcceptedReturnOfAcceptedCall(t) => last'[t].d = top_frame(t).d]_vars

\* C4 amended: on a properly nested stream, the depth of an accepted return is the depth
\* of the accepted call of its frame, provided every frame nested between the two had
\* its return accepted exactly when its call was accepted.
C4_DepthInvariant ==
    [][\A t \in live :
          (AcceptedReturnOfAcceptedCall(t) /\ top_frame(t).ok)
              => last'[t].d = top_frame(t).d]_vars

\* the return of an outer frame was accepted at the depth of its call, 0, after a
\* nested frame whose call and return were both rejected by a filter
C4_Witness ==
    \E t \in live :
        /\ mode = "nested"
        /\ last[t].status = "end"
        /\ last[t].prev = "skip_func"
        /\ last[t].d = 0
        /\ depth_tracker[t] = 0
        /\ stack[t] = <<>>

\* C8: when a session start that follows a session stop is followed by an accepted
\* call on its thread, the call is recorded at depth 0.
C8_DepthResetOnRestart ==
    [][\A t \in live :
          ( /\ last[t].what = "profiler_init" /\ last[t].status = "start"
            /\ last[t].prev = "stop"
            /\ last'[t].op = "event" /\ is_call(last'[t].what)
            /\ accepted(last'[t].status) )
          => last'[t].d = 0]_vars

\* a configuration mutation, a session start or a session stop on thread a
MutationOn(a) ==
    \/ \E file_ok \in FileOk : profiler_init(a, file_ok)
    \/ profiler_finalize(a)
    \/ \E name \in BoolProperties, val \in BOOLEAN : set_property(a, name, val)
    \/ \E val \in Verbosities : set_property(a, "verbosity", val)
    \/ \E name \in StrsetProperties, inp \in PatternLists : set_strset_property(a, name, inp)

\* the values the self-exclusion step of a later event can find in the static
\* _omnitrace_path of l.154: the value it was bound to, or, while it is unbound, the
\* base_module_path of whichever thread dispatches the first event with a frame
LaterPaths ==
    IF path_init THEN {omnitrace_path} ELSE { config_of(u).base_module_path : u \in live }

\* the verdicts the filters of thread b can give each event from here on
Decisions(b) ==
    [swhat \in Whats, fr \in Frames |->
        UNION { Decide(conf[tl[b]], path, swhat, fr) : path \in LaterPaths }]

\* C10: once thread b has its configuration, a configuration mutation, a session start
\* or a session stop on another thread a leaves b's configuration (with its ledger),
\* b's depth counter, b's label registry and the verdict of b's filters for every
\* event as they are.
C10_ThreadIsolation ==
    [][\A a \in live, b \in live :
          (a # b /\ tl[b] # NoInst /\ MutationOn(a)) =>
              /\ tl'[b] = tl[b]
              /\ conf'[tl[b]] = conf[tl[b]]
              /\ depth_tracker'[b] = depth_tracker[b]
              /\ labels'[b] = labels[b]
              /\ Decisions(b)' = Decisions(b)]_vars

\* the last operation of thread a on the control surface was a mutation
Mutated(a) == last[a].op = "control" /\ last[a].what # "get"

\* the fields a new thread's copy takes from the instance (flags, pattern sets, running
\* flag, base module path, verbosity) are the same in c1 and c2
Reflects(c1, c2) == CopyOfInstance(c1) = CopyOfInstance(c2)

\* C11: every configuration mutation (field set, pattern-set set, session start or
\* stop), from whichever thread it is made, is a mutation of the process-wide instance:
\* when a thread a has made the latest mutation and a thread b then has its first
\* event, b starts with a configuration that reflects a's (flags, pattern sets, running
\* flag, base module path, verbosity), with a ledger holding nothing but what that first
\* event pushed.
C11_NewThreadSeesMutation ==
    [][\A a \in live : \A b \in live \ {a} :
          ( /\ tl[a] # NoInst /\ Mutated(a)
            /\ \A c \in live \ {a} : ~Mutated(c)
            /\ tl[b] = NoInst /\ tl'[b] # NoInst
            /\ \E swhat \in Whats, fr \in Frames : Dispatch(b, swhat, fr) )
          => /\ Reflects(conf'[tl'[b]], conf[tl[a]])
             /\ handles(conf'[tl'[b]].records) = Len(out')]_vars


\* what every step that delivers an event to the idle thread t shows: the step is one
\* of the counted operations and ends in _get_args or at the end of a dispatch
EventStep(t) ==
    /\ pc[t] = "idle"
    /\ nops' # nops
    /\ (pc'[t] # "idle" \/ supp'[t] \/ last'[t].op = "event")

\* the step delivers the event swhat of frame fr to the idle thread t: the record of the
\* finished dispatch, or the event kept while _get_args runs, names it
Delivers(t, swhat, fr) ==
    /\ EventStep(t)
    /\ (pc'[t] = "idle" /\ ~supp'[t]) => last'[t].what = swhat
    /\ pc'[t] # "idle" => (pend'[t].swhat = swhat /\ pend'[t].fr = fr)
    /\ Dispatch(t, swhat, fr)

\* the outcomes of an event the dispatcher rejects: null frame, unrecognized kind, native
\* event with trace_c off, only/skip function filter, self-exclusion, only/skip filename
\* filter, empty label
Rejections == {"null", "what", "c_off", "only_func", "skip_func", "internal", "only_file",
               "skip_file", "empty"}

\* the step leaves the ledger, the depth counter, the label registry and the open
\* regions of thread t as they are and calls nothing of the sink
NothingRecorded(t) ==
    /\ ledger_of(t)' = ledger_of(t)
    /\ depth_tracker'[t] = depth_tracker[t]
    /\ labels'[t] = labels[t]
    /\ sink'[t] = sink[t]
    /\ out' = <<>>

\* C12: every event the dispatcher rejects (null frame, unrecognized event kind, native
\* call or return while native tracing is disabled, only/skip function filter,
\* self-exclusion, only/skip filename filter, empty label) leaves the thread's ledger,
\* depth counter and label registry unchanged and causes no sink call; an event of an
\* unrecognized kind is rejected and also leaves the configuration and the re-entrancy
\* flag as they were.
C12_RejectedChangesNothing ==
    [][\A t \in live :
          /\ \A swhat \in Whats, fr \in Frames :
                (pc'[t] = "idle" /\ Delivers(t, swhat, fr)) =>
                    /\ last'[t].status \in Rejections => NothingRecorded(t)
                    /\ what_of(swhat) < 0 =>
                           /\ last'[t].status \in {"null", "what"}
                           /\ NothingRecorded(t)
                           /\ config_of(t)' = config_of(t)
                           /\ disable'[t] = disable[t]
          /\ \A result \in {"ok", "attribute_error", "error"} :
                (last'[t].status \in Rejections /\ ArgsDone(t, result)) => NothingRecorded(t)]_vars

\* an event of an unrecognized kind was rejected while a region was open
C12_Witness ==
    \E t \in live :
        /\ last[t].op = "event" /\ last[t].what = "line" /\ last[t].status = "what"
        /\ last[t].prev = "begin"
        /\ handles(ledger_of(t)) = 1
        /\ depth_tracker[t] = 1
        /\ labels[t] # {}

\* the outcomes of an event that the self-exclusion step has let through
PastSelfExclusion == {"only_file", "skip_file", "empty", "begin", "end", "miss"}

\* C13: with include_internal off, an event that reaches the self-exclusion step is
\* rejected by it exactly when its full file path is prefixed by the base module path
\* configured for the dispatching thread (as set by the most recent profiler_init); an
\* event whose path is so prefixed is never forwarded to the sink, and an event whose
\* path is outside that path is not rejected by this step, whatever the order of the
\* first event and profiler_init.
C13_SelfExclusion ==
    [][\A t \in live : \A swhat \in Whats, fr \in Frames :
          (~fr.null /\ Delivers(t, swhat, fr) /\ ~config_of(t).include_internal) =>
              LET inside == strncmp_eq(fr.file, config_of(t).base_module_path)
                  done   == pc'[t] = "idle"
              IN  /\ (done /\ last'[t].status = "internal") => inside
                  /\ (~done \/ last'[t].status \in PastSelfExclusion) => ~inside
                  /\ inside => out' = <<>>]_vars

\* name matches at least one pattern of the set, all of which are well formed
MatchesAny(set, name) == \E p \in set : ~regex_error(p) /\ regex_search(name, p)

WellFormed(c) ==
    \A p \in c.include_functions \cup c.exclude_functions
              \cup c.include_filenames \cup c.exclude_filenames : ~regex_error(p)

\* the outcomes of an event rejected by one of the four pattern filters
FilterRejections == {"only_func", "skip_func", "only_file", "skip_file"}

\* C14: filter precedence.  An event whose function name matches both an only-functions
\* and a skip-functions pattern is rejected, and so is one whose full file path matches
\* both an only-filenames and a skip-filenames pattern (skip wins); an empty only-set
\* imposes no restriction, so with empty only-sets an event that reaches the filters is
\* rejected by them exactly when its name matches a skip-functions pattern or, having
\* passed the self-exclusion, its path matches a skip-filenames pattern.
C14_SkipWins ==
    [][\A t \in live :
          LET c      == config_of(t)
              done   == pc'[t] = "idle"
              status == last'[t].status
          IN  (EventStep(t) /\ WellFormed(c)) =>
              \A swhat \in Whats, fr \in Frames :
                  ( /\ ~fr.null /\ what_of(swhat) >= 0
                    /\ (c.trace_c \/ swhat \in {"call", "return"})
                    /\ Delivers(t, swhat, fr) )
                  => LET skipfunc == MatchesAny(c.exclude_functions, fr.func)
                         skipfile == MatchesAny(c.exclude_filenames, fr.file)
                     IN  /\ (MatchesAny(c.include_functions, fr.func) /\ skipfunc)
                                => (done /\ status = "skip_func" /\ NothingRecorded(t))
                         /\ (MatchesAny(c.include_filenames, fr.file) /\ skipfile)
                                => (done /\ status \in Rejections /\ NothingRecorded(t))
                         /\ c.include_functions = {} => ~(done /\ status = "only_func")
                         /\ c.include_filenames = {} => ~(done /\ status = "only_file")
                         /\ (c.include_functions = {} /\ c.include_filenames = {})
                                => ( (done /\ status \in FilterRejections)
                                     <=> (skipfunc \/ (skipfile /\ ~(done /\ status = "internal"))) )]_vars

\* an event whose path matches an only-filenames and a skip-filenames pattern, and whose
\* name matches an only-functions pattern, has been rejected by the skip-filenames filter
C14_Witness ==
    \E t \in live :
        /\ last[t].op = "event" /\ last[t].what = "call" /\ last[t].status = "skip_file"
        /\ p_foo \in config_of(t).include_functions
        /\ p_a_py \in config_of(t).include_filenames
        /\ p_a_py \in config_of(t).exclude_filenames
        /\ out = <<>>

\* C15: profiler_init on a running session leaves the ledger with all its open handles,
\* the running flag and the base-stack-depth marker as they are and touches neither the
\* sink nor the depth counter, so the regions opened before still meet their handles;
\* on a session that is not running it clears the ledger, sets the base-stack-depth
\* marker to -1 and marks the session running.  profiler_finalize on a session that is
\* not running changes nothing.
C15_StartIdempotent ==
    [][\A t \in live :
          LET c == config_of(t)
          IN  /\ \A file_ok \in FileOk :
                    ( /\ nops' # nops
                      /\ last'[t].what = "profiler_init"
                      /\ profiler_init(t, file_ok) ) =>
                        IF c.is_running
                        THEN /\ config_of(t)'.records = c.records
                             /\ config_of(t)'.is_running
                             /\ config_of(t)'.base_stack_depth = c.base_stack_depth
                             /\ NothingRecorded(t)
                        ELSE /\ config_of(t)'.records = EmptyMap
                             /\ config_of(t)'.base_stack_depth = -1
                             /\ config_of(t)'.is_running
              /\ (~c.is_running /\ nops' # nops /\ last'[t].what = "profiler_finalize"
                                  /\ profiler_finalize(t)) =>
                     /\ config_of(t)' = c
                     /\ NothingRecorded(t)]_vars

\* a return has ended the region that its call opened before a redundant profiler_init
C15_Witness ==
    \E t \in live :
        /\ last[t].op = "event" /\ is_return(last[t].what) /\ last[t].status = "end"
        /\ last[t].prev = "running"
        /\ config_of(t).is_running
        /\ out = << <<t, "endRegion", last[t].label>> >>

\* the labels of function foo in file /w/a.py (basename a.py) at line 10 without
\* arguments, for each setting of include_filename, include_line and full_filepath
LabelOfFoo(c) ==
    CASE c.include_filename /\ c.include_line /\ ~c.full_filepath  -> "[foo][a.py:10]"
      [] c.include_filename /\ ~c.include_line /\ ~c.full_filepath -> "[foo][a.py]"
      [] c.include_filename /\ c.include_line /\ c.full_filepath   -> "[foo][/w/a.py:10]"
      [] c.include_filename /\ ~c.include_line /\ c.full_filepath  -> "[foo][/w/a.py]"
      [] ~c.include_filename /\ c.include_line                     -> "foo:10"
      [] ~c.include_filename /\ ~c.include_line                    -> "foo"

\* C16: with include_args off, the label of an accepted event of function foo in a file
\* of basename a.py at line 10 is [foo][a.py:10] with filename and line on, [foo][a.py]
\* with filename on and line off, foo:10 with filename off and line on, and foo with
\* both off; full_filepath puts the full path in the place of the basename; and the
\* label is empty, and the event rejected for it, only if the function name is empty.
C16_Labels ==
    [][\A t \in live :
          /\ \A swhat \in Whats, fr \in Frames :
                (pc'[t] = "idle" /\ Delivers(t, swhat, fr) /\ ~config_of(t).include_args) =>
                    /\ (accepted(last'[t].status) /\ fr = Frame("foo", "/w/a.py", 10))
                           => last'[t].label = LabelOfFoo(config_of(t))
                    /\ accepted(last'[t].status) => last'[t].label # ""
                    /\ last'[t].status = "empty" => fr.func = ""
          /\ \A result \in {"ok", "attribute_error", "error"} :
                (last'[t].status = "empty" /\ ArgsDone(t, result)) => pend[t].fr.func = ""]_vars

\* an accepted call of foo got the label with the full path and the line
C16_Witness ==
    \E t \in live :
        /\ last[t].op = "event" /\ last[t].status = "begin"
        /\ last[t].label = "[foo][/w/a.py:10]"
        /\ ~config_of(t).include_args
        /\ config_of(t).full_filepath

\* thread t ends a dispatch in this step
Finishes(t) ==
    /\ pc'[t] = "idle"
    /\ last'[t].op = "event"
    /\ \/ \E swhat \in Whats, fr \in Frames : Delivers(t, swhat, fr)
       \/ \E result \in {"ok", "attribute_error", "error"} : ArgsDone(t, result)

\* C17: an accepted return (or native return) whose depth and label have no ledger
\* entry, or whose stack there is empty, raises no error, makes no sink call and leaves
\* the ledger as it is: no entry is created and no handle of another depth or label is
\* popped.
C17_MissIsNoOp ==
    [][\A t \in live :
          LET b == last'[t]
          IN  ( /\ b.op = "event" /\ is_return(b.what) /\ accepted(b.status)
                /\ entry_of(ledger_of(t), U32(b.d), b.label) = <<>>
                /\ Finishes(t) )
              => /\ b.status = "miss"
                 /\ out' = <<>>
                 /\ sink'[t] = sink[t]
                 /\ ledger_of(t)' = ledger_of(t)]_vars

\* an accepted return found the entry of its depth and label with an empty stack, while
\* the ledger held the handle of another label
C17_Witness ==
    \E t \in live :
        /\ last[t].op = "event" /\ is_return(last[t].what) /\ last[t].status = "miss"
        /\ U32(last[t].d) \in DOMAIN ledger_of(t)
        /\ last[t].label \in DOMAIN ledger_of(t)[U32(last[t].d)]
        /\ ledger_of(t)[U32(last[t].d)][last[t].label] = <<>>
        /\ handles(ledger_of(t)) > 0
        /\ out = <<>>

\* C18: every depth under which a handle is stored in a thread's ledger is a small
\* non-negative integer: the depth counter is never negative when a call takes it as
\* its depth, so no key of the ledger that holds a handle is a wrapped unsigned 32-bit
\* value (one with high bits set).
C18_SmallDepthKeys ==
    \A t \in live :
        \A key \in DOMAIN ledger_of(t) :
            \A label \in DOMAIN ledger_of(t)[key] :
                ledger_of(t)[key][label] # <<>> => key[1] = 0

\* what the aborted dispatches of C19 have in common: a dispatch that a failure aborts
\* hands the failure to its caller; from the delivery of the event to the failure the
\* steps of profiler_function leave the depth counter, the label registry, the ledger
\* and the backend alone and the re-entrancy flag is restored; a set of skip patterns
\* with a malformed pattern and no matching one makes the filter throw; a failure of
\* the introspection other than AttributeError is thrown on; an AttributeError is
\* swallowed and the event goes on with an empty argument string.
AbortsCleanly(t) ==
    LET c == config_of(t)
    IN  /\ (last'[t].status = "throw" /\ Finishes(t)) =>
               /\ NothingRecorded(t)
               /\ ~disable'[t]
        /\ (pc[t] = "idle" /\ pc'[t] # "idle") => NothingRecorded(t)
        /\ (pc[t] # "idle" /\ pc'[t] # "idle") =>
               /\ depth_tracker'[t] = depth_tracker[t]
               /\ labels'[t] = labels[t]
               /\ sink'[t] = sink[t]
        /\ \A swhat \in {"call", "return"}, fr \in Frames :
              ( /\ EventStep(t)
                /\ ~fr.null
                /\ c.include_functions = {}
                /\ \E p \in c.exclude_functions : regex_error(p)
                /\ ~MatchesAny(c.exclude_functions, fr.func)
                /\ Delivers(t, swhat, fr) )
              => (pc'[t] = "idle" /\ last'[t].status = "throw")
        /\ ArgsDone(t, "error") => last'[t].status = "throw"
        /\ ArgsDone(t, "attribute_error") =>
               /\ pc'[t] = "idle" => last'[t].status \in {"empty", "begin", "end", "miss"}
               /\ pc[t] = "args" =>
                      /\ pc'[t] = "idle"
                      /\ last'[t].label =
                             get_label([c EXCEPT !.include_filename = pend[t].bracket,
                                                 !.include_args = FALSE],
                                       c, pend[t].fr.func, get_basename(pend[t].fr.file),
                                       pend[t].fr.file, pend[t].fr.line, s_args)

\* C19: a dispatch that a failure aborts (a malformed pattern met while filtering, or
\* a failure of the argument introspection other than AttributeError) hands the failure
\* to its caller and leaves the depth counter, the ledger and the label registry of the
\* thread exactly as they were before the event, calls nothing of the sink and restores
\* the re-entrancy flag, so that the next event is processed; an AttributeError of the
\* introspection is swallowed and the event goes on with an empty argument string.
C19_AbortLeavesNoTrace ==
    [][\A t \in live :
          /\ AbortsCleanly(t)
          /\ (last'[t].status = "throw" /\ Finishes(t)) =>
                 ledger_of(t)' = IF pc[t] = "idle" THEN ledger_of(t) ELSE pend[t].recs]_vars

\* C19 with the ledger as the code leaves it: as above, but the ledger of the thread
\* is as it was before the event only if the python code that the introspection ran
\* has not called profiler_init or profiler_finalize before it failed; a call of
\* either that clears the ledger while the dispatch is inside _get_args stays in
\* effect after the abort.  Nothing else changes the ledger during the dispatch.
C19_AbortUndoesNothing ==
    [][\A t \in live :
          /\ AbortsCleanly(t)
          /\ (pc[t] # "idle" /\ pc'[t] # "idle" /\ ledger_of(t)' # ledger_of(t)) =>
                 /\ last'[t].op = "control"
                 /\ last'[t].what \in {"profiler_init", "profiler_finalize"}
                 /\ last'[t].status \in {"start", "stop"}
                 /\ ledger_of(t)' = EmptyMap
                 /\ pend'[t] = pend[t]
          /\ (last'[t].status = "throw" /\ Finishes(t) /\ pc[t] # "idle") =>
                 /\ last'[t].pre = handles(pend[t].recs)
                 /\ last'[t].post = handles(ledger_of(t))
                 /\ ledger_of(t) \in {pend[t].recs, EmptyMap}]_vars

\* a call was aborted by a failure of the introspection after the python code it ran
\* had stopped the session: the handle of the region opened before is gone from the
\* ledger, the backend still has the region open, and the flag is false again
C19_Witness ==
    \E t \in live :
        /\ last[t].op = "event" /\ last[t].status = "throw" /\ last[t].prev = "stop"
        /\ last[t].pre > 0 /\ last[t].post = 0
        /\ handles(ledger_of(t)) = 0
        /\ sink[t] # <<>>
        /\ ~disable[t] /\ pc[t] = "idle"
        /\ out = <<>>

\* C20: the running flag gates the dispatcher: while the session of a thread is not
\* running (before the first profiler_init, or after profiler_finalize and before the
\* next profiler_init) the events dispatched on that thread call neither beginRegion
\* nor endRegion and push nothing into the ledger, so the ledger is empty whenever the
\* session is not running.
C20_RunningGatesDispatch ==
    \A t \in live :
        ~config_of(t).is_running =>
            /\ handles(ledger_of(t)) = 0
            /\ \A i \in 1 .. Len(out) : out[i][1] # t

====
